---- MODULE Spec2Model ----
(***************************************************************************)
(* ARCHIVE: a model of the `route` command (src/archive_cli.py), of the    *)
(* rclone wrappers it calls (src/tools/rclone_io.py), of the filename      *)
(* helpers (src/tools/util.py) and of the MCP tools                        *)
(* (src/tools/rclone_io_mcp.py).                                           *)
(*                                                                         *)
(* Strings that the code inspects character by character are sequences of  *)
(* one-character strings; the two non-ASCII characters of the alphabet are *)
(* written "EMDASH" and "EACUTE".  JSON values of the reasoning response   *)
(* are records [t, n, s]: a tag, an integer and a character sequence.      *)
(***************************************************************************)
EXTENDS Integers, Sequences, FiniteSets, TLC

VARIABLES
    \* ---- route (src/archive_cli.py) ----
    pc,            \* position of route
    fileExists,    \* p.exists()
    auto, chosen, allow_create, json_out,   \* command-line options
    text,          \* what read_text_any returned: "short" (< 30 chars) or "long"
    warned,        \* the "very little text" warning was printed
    folders,       \* list_folders(use_cache=True)
    user_payload,  \* the request in flight to the reasoning service
    result,        \* the parsed response of call_llm
    resp,          \* the normalized response
    dest_folder, proposed,
    calls,         \* the calls made to collaborators, in order
    emitted,       \* what `--json` printed
    exitCode,      \* -1 while running
    failure,       \* why the run ended with a non-zero code
    \* ---- rclone_io (src/tools/rclone_io.py) ----
    cache,         \* data/cache/folders.json
    now,           \* time.time()
    lfCall,        \* the last direct call of list_folders: its arguments, the
                   \* clock and the cache file as the call found them, and what
                   \* rclone lsjson would print and return
    lfResult,      \* what that call did: the listing returned, or that it raised
    \* ---- pure functions under test ----
    normIn, normOut,     \* candidate normalization of route
    slugIn, slugOut,     \* slugify
    fnIn, fnOut,         \* smart_filename
    \* ---- MCP tools (src/tools/rclone_io_mcp.py) ----
    mcpCall,       \* the last tool call: tool, returncode, stderr, stdout
    mcpResult,     \* what it returned, or that it raised
    mcpLog         \* how many lines it wrote to the log (at most the last call's)

routeVars == <<pc, fileExists, auto, chosen, allow_create, json_out, text, warned,
               folders, user_payload, result, resp, dest_folder, proposed, calls,
               emitted, exitCode, failure, cache, now>>
normVars == <<normIn, normOut>>
slugVars == <<slugIn, slugOut>>
fnVars == <<fnIn, fnOut>>
mcpVars == <<mcpCall, mcpResult, mcpLog>>
lfVars == <<lfCall, lfResult>>
runVars == <<pc, fileExists, auto, chosen, allow_create, json_out, text, warned,
             folders, user_payload, result, resp, dest_folder, proposed, calls,
             emitted, exitCode, failure>>
vars == <<routeVars, lfVars, normVars, slugVars, fnVars, mcpVars>>

----------------------------------------------------------------------------
(* Bounds of the model *)

MaxSlugText == 3      \* longest enumerated input of slugify
MaxField == 2         \* longest enumerated type / vendor of a response
MaxCands == 2         \* most candidates in a reasoning response (route)
MaxNormCands == 3     \* most candidates in a normalization input
MaxOver == 1          \* folders listed beyond the cap
MaxOutLines == 4      \* most stdout lines of an rclone command (MCP tools)
MaxEpochs == 2        \* the clock runs to MaxEpochs * CACHE_TTL + 1 seconds
MaxCacheFolders == 2  \* most folders of the remote in direct list_folders calls

(* Program constants *)

DefaultMaxLen == 80   \* slugify(text, maxlen=80)
FolderCap == 500      \* folders[:500]
CACHE_TTL == 600

----------------------------------------------------------------------------
(* Characters and strings *)

Min(a, b) == IF a < b THEN a ELSE b
Max(a, b) == IF a > b THEN a ELSE b

UpperChars == <<"A","B","C","D","E","F","G","H","I","J","K","L","M",
                "N","O","P","Q","R","S","T","U","V","W","X","Y","Z">>
LowerChars == <<"a","b","c","d","e","f","g","h","i","j","k","l","m",
                "n","o","p","q","r","s","t","u","v","w","x","y","z">>
DigitChars == <<"0","1","2","3","4","5","6","7","8","9">>

Range(s) == {s[i] : i \in DOMAIN s}

IsUpper(c) == c \in Range(UpperChars)
IsLower(c) == c \in Range(LowerChars)
IsDigit(c) == c \in Range(DigitChars)
\* \w of a Python str pattern, on ASCII text
IsWord(c) == IsUpper(c) \/ IsLower(c) \/ IsDigit(c) \/ c = "_"
\* \s, and the characters str.strip() removes
IsSpace(c) == c \in {" ", "TAB"}

\* str.lower() of one character
LowerChar(c) ==
    IF IsUpper(c) THEN LowerChars[CHOOSE i \in DOMAIN UpperChars : UpperChars[i] = c]
    ELSE c

MapSeq(F(_), s) == [i \in DOMAIN s |-> F(s[i])]

\* str.lower()
Lower(s) == MapSeq(LowerChar, s)

\* unidecode() of one character: ASCII is kept, an accented letter loses
\* its accent, an em dash becomes two hyphens
UnidecodeChar(c) ==
    CASE c = "EMDASH" -> <<"-", "-">>
      [] c = "EACUTE" -> <<"e">>
      [] OTHER -> <<c>>

RECURSIVE Unidecode(_)
Unidecode(s) ==
    IF s = <<>> THEN <<>> ELSE UnidecodeChar(Head(s)) \o Unidecode(Tail(s))

\* s.lstrip(chars) / s.rstrip(chars) / s.strip(chars), In(c) telling the
\* stripped characters
RECURSIVE LStrip(_, _)
LStrip(In(_), s) ==
    IF s # <<>> /\ In(Head(s)) THEN LStrip(In, Tail(s)) ELSE s

RECURSIVE RStrip(_, _)
RStrip(In(_), s) ==
    IF s # <<>> /\ In(s[Len(s)]) THEN RStrip(In, SubSeq(s, 1, Len(s) - 1)) ELSE s

Strip(In(_), s) == RStrip(In, LStrip(In, s))

IsUnderscore(c) == c = "_"

\* text.strip() and text.strip("_")
StripSpaces(s) == Strip(IsSpace, s)
StripUnderscores(s) == Strip(IsUnderscore, s)

\* re.sub(r"[^\w\s.-]", "", text)
KeptBySlug(c) == IsWord(c) \/ IsSpace(c) \/ c = "." \/ c = "-"
DropOthers(s) == SelectSeq(s, KeptBySlug)

\* re.sub(r"[\s]+", "_", text): each maximal run of whitespace becomes one "_"
RECURSIVE CollapseSpaces(_)
CollapseSpaces(s) ==
    IF s = <<>> THEN <<>>
    ELSE IF IsSpace(Head(s))
         THEN <<"_">> \o CollapseSpaces(LStrip(IsSpace, s))
         ELSE <<Head(s)>> \o CollapseSpaces(Tail(s))

\* text[:n]
Prefix(s, n) == SubSeq(s, 1, Min(Len(s), Max(n, 0)))

\* tools/util.py slugify(text, maxlen)
slugify(t, maxlen) ==
    IF t = <<>> THEN <<>>
    ELSE StripUnderscores(
               Prefix(CollapseSpaces(Lower(StripSpaces(DropOthers(Unidecode(t))))),
                      maxlen))

\* str.replace("__", "_"): one left-to-right pass over non-overlapping matches
RECURSIVE ReplaceDouble(_)
ReplaceDouble(s) ==
    IF Len(s) < 2 THEN s
    ELSE IF s[1] = "_" /\ s[2] = "_"
         THEN <<"_">> \o ReplaceDouble(SubSeq(s, 3, Len(s)))
         ELSE <<s[1]>> \o ReplaceDouble(Tail(s))

\* os.path.splitext(name) of a name without directory separators: the
\* extension starts at the last dot, unless only dots precede it
LastDot(s) == IF \E i \in DOMAIN s : s[i] = "."
              THEN CHOOSE i \in DOMAIN s : s[i] = "." /\ \A j \in DOMAIN s : j > i => s[j] # "."
              ELSE 0
splitext(s) ==
    LET d == LastDot(s) IN
    IF d > 0 /\ \E j \in 1..(d - 1) : s[j] # "."
    THEN <<SubSeq(s, 1, d - 1), SubSeq(s, d, Len(s))>>
    ELSE <<s, <<>>>>

SeqsUpTo(S, n) == UNION {[1..k -> S] : k \in 0..n}

----------------------------------------------------------------------------
(* JSON values: [t |-> tag, n |-> integer, s |-> characters].  A float    *)
(* carries ten times its value in n; "absent" is a key the object lacks.  *)

JAbsent == [t |-> "absent", n |-> 0, s |-> <<>>]
JNull == [t |-> "null", n |-> 0, s |-> <<>>]
JInt(k) == [t |-> "int", n |-> k, s |-> <<>>]
JFloat(tenths) == [t |-> "float", n |-> tenths, s |-> <<>>]
JBool(b) == [t |-> "bool", n |-> IF b THEN 1 ELSE 0, s |-> <<>>]
JStr(cs) == [t |-> "str", n |-> 0, s |-> cs]
JList == [t |-> "list", n |-> 0, s |-> <<>>]     \* a non-empty array

\* dict.get(key): None for a key the object lacks
Get(v) == IF v.t = "absent" THEN JNull ELSE v
\* dict.get(key, default)
GetOr(v, default) == IF v.t = "absent" THEN default ELSE v

\* bool(v)
Truthy(v) ==
    CASE v.t \in {"absent", "null"} -> FALSE
      [] v.t \in {"int", "float", "bool"} -> v.n # 0
      [] v.t = "str" -> v.s # <<>>
      [] OTHER -> TRUE

\* a or b
Or(a, b) == IF Truthy(a) THEN a ELSE b

----------------------------------------------------------------------------
(* smart_filename (src/archive_cli.py) *)

Today == <<"2","0","2","6","-","1","1","-","0","6">>    \* today(), "%Y-%m-%d"

\* archive_cli.py smart_filename(inferred, orig_name, date_str)
smart_filename(inferred, orig_name, date_str) ==
    LET stem == splitext(orig_name)[1]
        ext == splitext(orig_name)[2]
        doc_type == Or(Get(inferred.type), JStr(<<"d", "o", "c">>))
        vendor_or_subject == Or(Or(Get(inferred.vendor), Get(inferred.subject)), JStr(<<>>))
        fn == date_str \o <<"_">> \o slugify(doc_type.s, DefaultMaxLen)
                       \o <<"_">> \o slugify(vendor_or_subject.s, DefaultMaxLen)
                       \o <<"_">> \o slugify(stem, DefaultMaxLen) \o Lower(ext)
    IN StripUnderscores(ReplaceDouble(fn))

----------------------------------------------------------------------------
(* Normalization of the reasoning response (src/archive_cli.py, route) *)

DigitVal(c) == (CHOOSE i \in DOMAIN DigitChars : DigitChars[i] = c) - 1

RECURSIVE DigitsVal(_)
DigitsVal(ds) ==
    IF ds = <<>> THEN 0 ELSE 10 * DigitsVal(SubSeq(ds, 1, Len(ds) - 1)) + DigitVal(ds[Len(ds)])

Raised == [ok |-> FALSE, n |-> 0]
Value(k) == [ok |-> TRUE, n |-> k]

\* int(str): surrounding whitespace is ignored, one sign is allowed, and the
\* rest must be decimal digits; anything else raises ValueError
ParseInt(cs) ==
    LET body == StripSpaces(cs)
        signed == body # <<>> /\ body[1] \in {"-", "+"}
        digits == IF signed THEN Tail(body) ELSE body
    IN IF digits # <<>> /\ \A i \in DOMAIN digits : IsDigit(digits[i])
       THEN Value(IF signed /\ body[1] = "-" THEN 0 - DigitsVal(digits) ELSE DigitsVal(digits))
       ELSE Raised

\* int(v) of a JSON value: a float is truncated towards zero, None and a
\* list raise TypeError
IntOf(v) ==
    CASE v.t \in {"int", "bool"} -> Value(v.n)
      [] v.t = "float" -> Value(IF v.n >= 0 THEN v.n \div 10 ELSE 0 - ((0 - v.n) \div 10))
      [] v.t = "str" -> ParseInt(v.s)
      [] OTHER -> Raised

\* a coercion without the except branch: the exception escapes
CoerceScore_NoExcept(c) == IntOf(GetOr(c.score, JInt(0)))

\* lines 122-125: try: c["score"] = int(c.get("score", 0)) / except: c["score"] = 0
CoerceScore(c) ==
    LET r == IntOf(GetOr(c.score, JInt(0))) IN IF r.ok THEN r ELSE Value(0)

CoerceCandidate(c) == [c EXCEPT !.score = JInt(CoerceScore(c).n)]

Reverse(s) == [i \in DOMAIN s |-> s[Len(s) + 1 - i]]

\* the key of the sort: x.get("score", 0)
SortKey(c) == GetOr(c.score, JInt(0)).n

\* a stable ascending sort: each element goes after the elements whose key
\* is not greater than its own
InsertAsc(sorted, c) ==
    LET k == Cardinality({i \in DOMAIN sorted : SortKey(sorted[i]) <= SortKey(c)})
    IN SubSeq(sorted, 1, k) \o <<c>> \o SubSeq(sorted, k + 1, Len(sorted))

RECURSIVE StableSortAsc(_)
StableSortAsc(s) ==
    IF s = <<>> THEN <<>>
    ELSE InsertAsc(StableSortAsc(SubSeq(s, 1, Len(s) - 1)), s[Len(s)])

\* sort ascending, then reverse: equal scores come out in reversed order
SortedDescending_ReverseAfter(cands) == Reverse(StableSortAsc(cands))

\* line 127: sorted(cands, key=score, reverse=True); list.sort reverses the
\* list, sorts it stably and reverses it again, which keeps equal keys in
\* their original order
SortedDescending(cands) == Reverse(StableSortAsc(Reverse(cands)))

\* the loop of lines 121-125 lets an exception escape
CoercionRaises(cands) == \E i \in DOMAIN cands : ~CoerceScore(cands[i]).ok

\* lines 120-127
NormalizeCandidates(cands) == SortedDescending(MapSeq(CoerceCandidate, cands))

NoRemotePath == [folder |-> JNull, name |-> <<>>]

\* lines 113-127: resp
Normalize(r) ==
    [inferred |-> r.inferred,
     candidates |-> NormalizeCandidates(r.candidates),
     proposed_filename |-> Get(r.proposed_filename),
     chosen_folder |-> Get(r.chosen_folder),
     final_remote_path |-> NoRemotePath,
     renamed |-> <<>>]

\* a suggest-only branch that does not return: the run falls through to the move
SuggestOnly_FallThrough(a, ch) == FALSE

\* line 131: not auto and not chosen
SuggestOnly(a, ch) == ~a /\ ~Truthy(ch)

\* candidates[0]["path"] raises KeyError when the first candidate has no path
FirstPathRaises(ch, rs) ==
    /\ ~Truthy(Or(ch, rs.chosen_folder))
    /\ rs.candidates # <<>>
    /\ rs.candidates[1].path.t = "absent"

\* a resolution that prefers the response's folder to the caller's
Destination_ResponseFirst(ch, rs) ==
    LET first == Or(rs.chosen_folder, ch) IN
    IF Truthy(first) THEN first
    ELSE IF rs.candidates # <<>> THEN rs.candidates[1].path ELSE JNull

\* lines 157-159: chosen or resp["chosen_folder"], else the first candidate
Destination(ch, rs) ==
    LET first == Or(ch, rs.chosen_folder) IN
    IF Truthy(first) THEN first
    ELSE IF rs.candidates # <<>> THEN rs.candidates[1].path ELSE JNull

FileName == <<"a", ".", "P", "D", "F">>     \* p.name

\* lines 151 / 167: resp["proposed_filename"] or smart_filename(...)
Proposed(rs) ==
    IF Truthy(rs.proposed_filename) THEN rs.proposed_filename.s
    ELSE smart_filename(rs.inferred, FileName, Today)

----------------------------------------------------------------------------
(* rclone_io.py *)

\* What `rclone lsjson --dirs-only --recursive` prints, and what the cache
\* file holds, is named by [n, extra]: n folders with Path = Name = n .. 1
\* (folder names are numbered in their sort order), and with `extra` three
\* more records: one without Path whose Name is 1, one without Path and
\* Name, and a second record of folder 2.
Listing(d) ==
    [i \in 1..d.n |-> [Path |-> d.n + 1 - i, Name |-> d.n + 1 - i]]
    \o (IF d.extra
        THEN <<[Path |-> 0, Name |-> 1], [Path |-> 0, Name |-> 0], [Path |-> 2, Name |-> 2]>>
        ELSE <<>>)

FolderCounts == {0, 2} \cup ((FolderCap - 1)..(FolderCap + MaxOver))
Listings == {[n |-> k, extra |-> FALSE] : k \in FolderCounts} \cup {[n |-> 2, extra |-> TRUE]}

\* sorted(set(paths)) of numbered names
SortedSet(S) ==
    LET In(x) == x \in S IN SelectSeq([i \in 1..(FolderCap + MaxOver + 1) |-> i], In)

\* lines 38-43: rel = obj.get("Path") or obj.get("Name"); kept if non-empty
RelOf(obj) == IF obj.Path # 0 THEN obj.Path ELSE obj.Name
PathsOf(data) == SortedSet({RelOf(data[i]) : i \in DOMAIN data} \ {0})

\* a _run that does not look at the return code
RunRaises_Never(returncode) == FALSE

\* _run, lines 18-23: RuntimeError when the command exits non-zero
RunRaises(returncode) == returncode # 0

ReturnCodes == {0, 1}

NoCache == [exists |-> FALSE, data |-> [n |-> 0, extra |-> FALSE], mtime |-> 0]

\* a freshness test that still accepts a file exactly CACHE_TTL seconds old
CacheFresh_Inclusive(use_cache, c, t) ==
    use_cache /\ c.exists /\ (t - c.mtime) <= CACHE_TTL

\* line 29: use_cache and CACHE.exists() and (time.time() - mtime) < CACHE_TTL
CacheFresh(use_cache, c, t) == use_cache /\ c.exists /\ (t - c.mtime) < CACHE_TTL

----------------------------------------------------------------------------
(* Inputs of the pure functions *)

Example == <<"L", "o", "g", "i", "t", "e", "c", "h", " ", "I", "n", "t", "e", "r", "n",
             "a", "t", "i", "o", "n", "a", "l", " ", "S", ".", "A", ".", " ", "EMDASH",
             " ", "I", "n", "v", "o", "i", "c", "e", " ", "#", "1", "2", "3", "4", "5">>
ExampleSlug == <<"l", "o", "g", "i", "t", "e", "c", "h", "_", "i", "n", "t", "e", "r", "n",
                 "a", "t", "i", "o", "n", "a", "l", "_", "s", "_", "a", "_", "i", "n", "v",
                 "o", "i", "c", "e", "_", "1", "2", "3", "4", "5">>

SlugAlphabet == {"A", "b", "1", " ", "TAB", ".", "-", "_", "#", "EMDASH", "EACUTE"}
SlugTexts == SeqsUpTo(SlugAlphabet, MaxSlugText) \cup {Example}
SlugMaxLens == {1, 2, DefaultMaxLen}

NotRun == [done |-> FALSE, v |-> <<>>]
Ran(v) == [done |-> TRUE, v |-> v]

FieldAlphabet == {"A", "#", "_", " "}
FieldVals == {JAbsent, JNull} \cup {JStr(cs) : cs \in SeqsUpTo(FieldAlphabet, MaxField)}
SubjectVals == {JAbsent, JStr(<<"s">>)}
Inferreds == [type : FieldVals, vendor : FieldVals, subject : SubjectVals]
OrigNames == {<<"a">>, <<"a", ".", "P", "D", "F">>, <<"#", ".", "p", "d", "f">>,
              <<"#">>, <<"_", "a", "_", ".", "t", "x", "t">>, <<"a", " ", "b", ".", "T", "x", "t">>,
              <<".", "p", "d", "f">>, <<"a", "_", "_", "b">>, <<"a", ".", "b", ".", "C">>}

----------------------------------------------------------------------------
(* Idle values of the variables a specification does not use *)

IdleRun ==
    /\ pc = "idle" /\ fileExists = FALSE /\ auto = FALSE /\ chosen = JNull
    /\ allow_create = FALSE /\ json_out = FALSE /\ text = "" /\ warned = FALSE
    /\ folders = <<>> /\ user_payload = <<>> /\ result = <<>> /\ resp = <<>>
    /\ dest_folder = JNull /\ proposed = <<>> /\ calls = <<>> /\ emitted = <<>>
    /\ exitCode = -1 /\ failure = "none"
IdleRoute ==
    /\ IdleRun
    /\ cache = [exists |-> FALSE, data |-> <<>>, mtime |-> 0] /\ now = 0
IdleLf == lfCall = <<>> /\ lfResult = <<>>
IdleNorm == normIn = <<>> /\ normOut = [done |-> FALSE, raised |-> FALSE, v |-> <<>>]
IdleSlug == slugIn = <<>> /\ slugOut = NotRun
IdleFn == fnIn = <<>> /\ fnOut = NotRun
IdleMcp == mcpCall = <<>> /\ mcpResult = <<>> /\ mcpLog = 0

----------------------------------------------------------------------------
(* slugify applied to every enumerated text *)

InitSlug ==
    /\ slugIn \in [text : SlugTexts, maxlen : SlugMaxLens]
    /\ slugOut = NotRun
    /\ IdleRoute /\ IdleLf /\ IdleNorm /\ IdleFn /\ IdleMcp

Slugify ==
    /\ ~slugOut.done
    /\ slugOut' = Ran(slugify(slugIn.text, slugIn.maxlen))
    /\ UNCHANGED <<slugIn, routeVars, lfVars, normVars, fnVars, mcpVars>>

NextSlug == Slugify
SpecSlug == InitSlug /\ [][NextSlug]_vars

(* smart_filename applied to every enumerated response and file name *)

InitFn ==
    /\ fnIn \in [inferred : Inferreds, orig_name : OrigNames]
    /\ fnOut = NotRun
    /\ IdleRoute /\ IdleLf /\ IdleNorm /\ IdleSlug /\ IdleMcp

SmartFilename ==
    /\ ~fnOut.done
    /\ fnOut' = Ran(smart_filename(fnIn.inferred, fnIn.orig_name, Today))
    /\ UNCHANGED <<fnIn, routeVars, lfVars, normVars, slugVars, mcpVars>>

NextFn == SmartFilename
SpecFn == InitFn /\ [][NextFn]_vars

----------------------------------------------------------------------------
(* route (src/archive_cli.py) *)

Call(fn, arg, ok) == [fn |-> fn, arg |-> arg, ok |-> ok]

RouteChosen == {JNull, JStr(<<>>), JStr(<<"C">>)}      \* --chosen
RouteCands ==
    {[path |-> JStr(<<"A">>), score |-> JInt(2)],
     [path |-> JStr(<<"B">>), score |-> JInt(2)],
     [path |-> JStr(<<"B">>), score |-> JStr(<<"3">>)],
     [path |-> JStr(<<>>), score |-> JInt(1)],
     [path |-> JAbsent, score |-> JNull]}
EmptyInferred == [type |-> JAbsent, vendor |-> JAbsent, subject |-> JAbsent]
RouteInferreds == {EmptyInferred, [EmptyInferred EXCEPT !.type = JStr(<<"#">>)]}

\* what call_llm can return: a JSON object, or JSON that is not an object
Responses ==
    [kind : {"dict"},
     inferred : RouteInferreds,
     candidates : SeqsUpTo(RouteCands, MaxCands),
     proposed_filename : {JAbsent, JStr(<<"p">>)},
     chosen_folder : {JAbsent, JStr(<<>>), JStr(<<"F">>)}]
    \cup {[kind |-> "notdict", inferred |-> EmptyInferred, candidates |-> <<>>,
           proposed_filename |-> JAbsent, chosen_folder |-> JAbsent]}

NoResponse == [kind |-> "none", inferred |-> EmptyInferred, candidates |-> <<>>,
               proposed_filename |-> JAbsent, chosen_folder |-> JAbsent]
NoResp == [inferred |-> EmptyInferred, candidates |-> <<>>, proposed_filename |-> JNull,
           chosen_folder |-> JNull, final_remote_path |-> NoRemotePath, renamed |-> <<>>]
NoPayload == [auto |-> FALSE, extracted_text |-> "", folders |-> <<>>]
NotEmitted == [done |-> FALSE, v |-> NoResp]
Emitted(rs) == [done |-> TRUE, v |-> rs]

StartTime == CACHE_TTL + CACHE_TTL
InitCaches ==
    {NoCache} \cup
    {[exists |-> TRUE, data |-> d, mtime |-> m] :
        d \in {[n |-> 2, extra |-> TRUE], [n |-> FolderCap + MaxOver, extra |-> FALSE]},
        m \in {StartTime - CACHE_TTL, StartTime - CACHE_TTL + 1}}

InitRoute ==
    /\ pc = "start"
    /\ fileExists \in BOOLEAN
    /\ auto \in BOOLEAN
    /\ chosen \in RouteChosen
    /\ allow_create \in BOOLEAN
    /\ json_out \in BOOLEAN
    /\ text = "" /\ warned = FALSE
    /\ folders = <<>> /\ user_payload = NoPayload
    /\ result = NoResponse /\ resp = NoResp
    /\ dest_folder = JNull /\ proposed = <<>>
    /\ calls = <<>> /\ emitted = NotEmitted
    /\ exitCode = -1 /\ failure = "none"
    /\ cache \in InitCaches /\ now = StartTime
    /\ IdleLf /\ IdleNorm /\ IdleSlug /\ IdleFn /\ IdleMcp

otherVars == <<lfVars, normVars, slugVars, fnVars, mcpVars>>
options == <<fileExists, auto, chosen, allow_create, json_out>>

\* the run ends: typer.Exit(code), an uncaught exception (code 1), or return
Exit(code, why) == pc' = "exit" /\ exitCode' = code /\ failure' = why

\* lines 63-66
CheckFile ==
    /\ pc = "start"
    /\ IF ~fileExists
       THEN Exit(1, "FileNotFound")
       ELSE pc' = "read_text" /\ UNCHANGED <<exitCode, failure>>
    /\ UNCHANGED <<options, text, warned, folders, user_payload, result, resp,
                   dest_folder, proposed, calls, emitted, cache, now, otherVars>>

\* lines 69-72; read_text_any raises on a file its library cannot open
ReadText ==
    /\ pc = "read_text"
    /\ \E t \in {"short", "long", "raise"} :
         /\ calls' = Append(calls, Call("read_text_any", JNull, t # "raise"))
         /\ IF t = "raise"
            THEN Exit(1, "exception") /\ UNCHANGED <<text, warned>>
            ELSE /\ text' = t
                 /\ warned' = (t = "short")
                 /\ pc' = "list_folders"
                 /\ UNCHANGED <<exitCode, failure>>
    /\ UNCHANGED <<options, folders, user_payload, result, resp, dest_folder,
                   proposed, emitted, cache, now, otherVars>>

\* line 76 and rclone_io.py list_folders(use_cache=True), lines 25-43
ListFolders ==
    /\ pc = "list_folders"
    /\ IF CacheFresh(TRUE, cache, now)
       THEN /\ folders' = PathsOf(Listing(cache.data))
            /\ calls' = Append(calls, Call("list_folders", JNull, TRUE))
            /\ pc' = "build_payload"
            /\ UNCHANGED <<cache, exitCode, failure>>
       ELSE \E rc \in ReturnCodes, d \in Listings :     \* rclone lsjson
              /\ calls' = Append(calls, Call("list_folders", JNull, rc = 0))
              /\ IF RunRaises(rc)
                 THEN Exit(1, "exception") /\ UNCHANGED <<folders, cache>>
                 ELSE /\ cache' = [exists |-> TRUE, data |-> d, mtime |-> now]
                      /\ folders' = PathsOf(Listing(d))
                      /\ pc' = "build_payload"
                      /\ UNCHANGED <<exitCode, failure>>
    /\ UNCHANGED <<options, text, warned, user_payload, result, resp, dest_folder,
                   proposed, emitted, now, otherVars>>

\* a cap that keeps one folder less
PayloadFolders_OneLess(fs) == SubSeq(fs, 1, Min(Len(fs), FolderCap - 1))

\* line 105: folders[:500]
PayloadFolders(fs) == SubSeq(fs, 1, Min(Len(fs), FolderCap))

\* lines 100-106
BuildPayload ==
    /\ pc = "build_payload"
    /\ user_payload' = [auto |-> auto, extracted_text |-> text,
                        folders |-> PayloadFolders(folders)]
    /\ pc' = "call_llm"
    /\ UNCHANGED <<options, text, warned, folders, result, resp, dest_folder, proposed,
                   calls, emitted, exitCode, failure, cache, now, otherVars>>

\* line 110 and call_llm, lines 17-41: one POST; raise_for_status, r.json()
\* and json.loads raise on a failed or malformed reply.  text, folders and
\* user_payload are not read after the request; they go with it.
CallLLM ==
    /\ pc = "call_llm"
    /\ \/ \E r \in Responses :
            /\ result' = r
            /\ calls' = Append(calls, Call("call_llm", JNull, TRUE))
            /\ pc' = "normalize"
            /\ UNCHANGED <<exitCode, failure>>
       \/ /\ calls' = Append(calls, Call("call_llm", JNull, FALSE))
          /\ Exit(1, "exception")
          /\ UNCHANGED result
    /\ text' = "" /\ folders' = <<>> /\ user_payload' = NoPayload
    /\ UNCHANGED <<options, warned, resp, dest_folder, proposed, emitted, cache, now,
                   otherVars>>

\* lines 112-127; result.get raises AttributeError when the reply is no object
NormalizeResponse ==
    /\ pc = "normalize"
    /\ IF result.kind # "dict" \/ CoercionRaises(result.candidates)
       THEN Exit(1, "exception") /\ UNCHANGED resp
       ELSE /\ resp' = Normalize(result)
            /\ pc' = "branch"
            /\ UNCHANGED <<exitCode, failure>>
    /\ UNCHANGED <<options, text, warned, folders, user_payload, result, dest_folder,
                   proposed, calls, emitted, cache, now, otherVars>>

\* lines 130-154: suggest only; --json prints resp, otherwise the table and
\* the proposed filename
Suggest ==
    /\ pc = "branch"
    /\ SuggestOnly(auto, chosen)
    /\ IF json_out
       THEN emitted' = Emitted(resp) /\ UNCHANGED proposed
       ELSE proposed' = Proposed(resp) /\ UNCHANGED emitted
    /\ Exit(0, "none")
    /\ UNCHANGED <<options, text, warned, folders, user_payload, result, resp,
                   dest_folder, calls, cache, now, otherVars>>

\* lines 156-167
Decide ==
    /\ pc = "branch"
    /\ ~SuggestOnly(auto, chosen)
    /\ IF FirstPathRaises(chosen, resp)
       THEN Exit(1, "exception") /\ UNCHANGED <<dest_folder, proposed>>
       ELSE IF ~Truthy(Destination(chosen, resp))
       THEN Exit(1, "NoDestination") /\ UNCHANGED <<dest_folder, proposed>>
       ELSE /\ dest_folder' = Destination(chosen, resp)
            /\ proposed' = Proposed(resp)
            /\ pc' = "ensure_path"
            /\ UNCHANGED <<exitCode, failure>>
    /\ UNCHANGED <<options, text, warned, folders, user_payload, result, resp,
                   calls, emitted, cache, now, otherVars>>

\* line 170: if allow_create
EnsureWanted(ac) == ac

\* lines 170-172 and rclone_io.py ensure_path, lines 45-49
EnsurePath ==
    /\ pc = "ensure_path"
    /\ IF EnsureWanted(allow_create)
       THEN \E rc \in ReturnCodes :                     \* rclone mkdir
              /\ calls' = Append(calls, Call("ensure_path", dest_folder, rc = 0))
              /\ IF RunRaises(rc)
                 THEN Exit(1, "exception")
                 ELSE pc' = "move" /\ UNCHANGED <<exitCode, failure>>
       ELSE pc' = "move" /\ UNCHANGED <<calls, exitCode, failure>>
    /\ UNCHANGED <<options, text, warned, folders, user_payload, result, resp,
                   dest_folder, proposed, emitted, cache, now, otherVars>>

\* lines 174-187 and rclone_io.py move_local_to_remote, lines 51-57
Move ==
    /\ pc = "move"
    /\ \E rc \in ReturnCodes :                               \* rclone moveto
         /\ calls' = Append(calls, Call("move_local_to_remote", dest_folder, rc = 0))
         /\ IF RunRaises(rc)
            THEN Exit(1, "exception") /\ UNCHANGED <<resp, emitted>>
            ELSE /\ resp' = [resp EXCEPT
                               !.final_remote_path = [folder |-> dest_folder, name |-> proposed],
                               !.renamed = proposed,
                               !.chosen_folder = dest_folder]
                 /\ emitted' = IF json_out THEN Emitted(resp') ELSE emitted
                 /\ Exit(0, "none")
    /\ UNCHANGED <<options, text, warned, folders, user_payload, result, dest_folder,
                   proposed, cache, now, otherVars>>

Next ==
    \/ CheckFile \/ ReadText \/ ListFolders \/ BuildPayload \/ CallLLM
    \/ NormalizeResponse \/ Suggest \/ Decide \/ EnsurePath \/ Move

Spec == InitRoute /\ [][Next]_vars

----------------------------------------------------------------------------
(* The normalization of lines 120-127 applied to every enumerated list *)

NormPaths == {JStr(<<"A">>), JStr(<<"B">>)}
NormScores == {JAbsent, JNull, JInt(2), JStr(<<"3">>), JStr(<<" ", "-", "2", " ">>),
               JStr(<<"x">>), JFloat(29), JFloat(-15), JBool(TRUE), JList}
NormCands == [path : NormPaths, score : NormScores]

InitNorm ==
    /\ normIn \in SeqsUpTo(NormCands, MaxNormCands)
    /\ normOut = [done |-> FALSE, raised |-> FALSE, v |-> <<>>]
    /\ IdleRoute /\ IdleLf /\ IdleSlug /\ IdleFn /\ IdleMcp

NormalizeList ==
    /\ ~normOut.done
    /\ normOut' = IF CoercionRaises(normIn)
                  THEN [done |-> TRUE, raised |-> TRUE, v |-> <<>>]
                  ELSE [done |-> TRUE, raised |-> FALSE, v |-> NormalizeCandidates(normIn)]
    /\ UNCHANGED <<normIn, routeVars, lfVars, slugVars, fnVars, mcpVars>>

NextNorm == NormalizeList
SpecNorm == InitNorm /\ [][NextNorm]_vars

----------------------------------------------------------------------------
(* The MCP tools (src/tools/rclone_io_mcp.py).  stdout is a sequence of    *)
(* lines, a line a sequence of words; stderr is a character sequence.      *)

None == [none |-> TRUE, value |-> <<>>]
Some(v) == [none |-> FALSE, value |-> v]
ResultWrapper(success, r) == [kind |-> "return", success |-> success, result |-> r]
ToolRaised == [kind |-> "raise", success |-> FALSE, result |-> None]
NoToolResult == [kind |-> "none", success |-> FALSE, result |-> None]

NotBlank(line) == line # <<>>

\* lines 55-70.  Line 63 is `await ctx.error(err.decode.strip())`:
\* err.decode is a method and has no attribute strip, so the line raises
\* AttributeError whenever stderr is not empty.
listremotes(returncode, err, out) ==
    IF err # <<>> THEN ToolRaised
    ELSE IF returncode # 0 THEN ResultWrapper(FALSE, None)
    ELSE ResultWrapper(TRUE, Some(SelectSeq(out, NotBlank)))

\* lines 88-107
lsf(returncode, err, out) ==
    IF returncode # 0 THEN ResultWrapper(FALSE, None)
    ELSE ResultWrapper(TRUE, Some(out))

\* x[1:] of a line's words
RestOfWords(line) == IF line = <<>> THEN <<>> ELSE Tail(line)

\* lines 124-146; AboutReturn(*values) raises TypeError unless there are
\* exactly four values
about(returncode, err, out) ==
    IF returncode # 0 THEN ResultWrapper(FALSE, None)
    ELSE IF Len(out) # 4 THEN ToolRaised
    ELSE ResultWrapper(TRUE, Some(MapSeq(RestOfWords, out)))

\* lines 165-185
copy(returncode, err, out) ==
    IF returncode # 0 THEN ResultWrapper(FALSE, None)
    ELSE ResultWrapper(TRUE, None)

\* logger.error: once for a non-empty stderr (before ctx.error), once for a
\* non-zero return code when that line is reached
Logged(res, returncode, err) ==
    (IF err # <<>> THEN 1 ELSE 0) + (IF res.kind = "return" /\ returncode # 0 THEN 1 ELSE 0)

McpReturnCodes == {0, 1, 2}
McpStderr == {<<>>, <<"e", "r", "r">>}
McpLines == {<<>>, <<"Total:", "1", "GiB">>}
McpStdout == SeqsUpTo(McpLines, MaxOutLines)

InitMcp ==
    /\ mcpCall = [tool |-> "none", returncode |-> 0, err |-> <<>>, out |-> <<>>]
    /\ mcpResult = NoToolResult
    /\ mcpLog = 0
    /\ IdleRoute /\ IdleLf /\ IdleNorm /\ IdleSlug /\ IdleFn

ToolCall(tool, rc, err, out) == [tool |-> tool, returncode |-> rc, err |-> err, out |-> out]

ToolListremotes ==
    \E rc \in McpReturnCodes, err \in McpStderr, out \in McpStdout :
        /\ mcpCall' = ToolCall("listremotes", rc, err, out)
        /\ mcpResult' = listremotes(rc, err, out)
        /\ mcpLog' = Logged(listremotes(rc, err, out), rc, err)
        /\ UNCHANGED <<routeVars, lfVars, normVars, slugVars, fnVars>>

ToolLsf ==
    \E rc \in McpReturnCodes, err \in McpStderr, out \in McpStdout :
        /\ mcpCall' = ToolCall("lsf", rc, err, out)
        /\ mcpResult' = lsf(rc, err, out)
        /\ mcpLog' = Logged(lsf(rc, err, out), rc, err)
        /\ UNCHANGED <<routeVars, lfVars, normVars, slugVars, fnVars>>

ToolAbout ==
    \E rc \in McpReturnCodes, err \in McpStderr, out \in McpStdout :
        /\ mcpCall' = ToolCall("about", rc, err, out)
        /\ mcpResult' = about(rc, err, out)
        /\ mcpLog' = Logged(about(rc, err, out), rc, err)
        /\ UNCHANGED <<routeVars, lfVars, normVars, slugVars, fnVars>>

ToolCopy ==
    \E rc \in McpReturnCodes, err \in McpStderr, out \in McpStdout :
        /\ mcpCall' = ToolCall("copy", rc, err, out)
        /\ mcpResult' = copy(rc, err, out)
        /\ mcpLog' = Logged(copy(rc, err, out), rc, err)
        /\ UNCHANGED <<routeVars, lfVars, normVars, slugVars, fnVars>>

NextMcp == ToolListremotes \/ ToolLsf \/ ToolAbout \/ ToolCopy
SpecMcp == InitMcp /\ [][NextMcp]_vars

----------------------------------------------------------------------------
(* list_folders (src/tools/rclone_io.py) called directly, any number of    *)
(* times, while the clock advances                                         *)

\* lines 25-43: what list_folders(use_cache) does with the cache file c at
\* time t when `rclone lsjson` would exit with rc after printing listing d:
\* whether the command ran, whether the call raised, the cache file after the
\* call and the paths returned
list_folders(use_cache, c, t, rc, d) ==
    IF CacheFresh(use_cache, c, t)
    THEN [ran_remote |-> FALSE, raised |-> FALSE, cache |-> c,
          paths |-> PathsOf(Listing(c.data))]
    ELSE IF RunRaises(rc)
    THEN [ran_remote |-> TRUE, raised |-> TRUE, cache |-> c, paths |-> <<>>]
    ELSE [ran_remote |-> TRUE, raised |-> FALSE,
          cache |-> [exists |-> TRUE, data |-> d, mtime |-> t],
          paths |-> PathsOf(Listing(d))]

CacheListings ==
    {[n |-> k, extra |-> FALSE] : k \in 0..MaxCacheFolders} \cup {[n |-> 2, extra |-> TRUE]}

\* the instants the clock is read at: around every multiple of CACHE_TTL
ClockValues ==
    {t \in {k * CACHE_TTL + e : k \in 0..MaxEpochs, e \in {-1, 0, 1}} : t >= 0}

NoLfCall == [made |-> FALSE, use_cache |-> FALSE, at |-> 0, before |-> NoCache,
             returncode |-> 0, remote |-> [n |-> 0, extra |-> FALSE]]
NoLfResult == [ran_remote |-> FALSE, raised |-> FALSE, cache |-> NoCache, paths |-> <<>>]

InitCache ==
    /\ cache \in {NoCache} \cup
                 {[exists |-> TRUE, data |-> d, mtime |-> 0] : d \in CacheListings}
    /\ now = 0
    /\ lfCall = NoLfCall
    /\ lfResult = NoLfResult
    /\ IdleRun /\ IdleNorm /\ IdleSlug /\ IdleFn /\ IdleMcp

\* time passes
Tick ==
    /\ \E t \in ClockValues : t > now /\ now' = t
    /\ UNCHANGED <<cache, lfVars, runVars, normVars, slugVars, fnVars, mcpVars>>

\* one call of list_folders
ListFoldersCall ==
    \E use_cache \in BOOLEAN, rc \in ReturnCodes, d \in CacheListings :
        /\ lfCall' = [made |-> TRUE, use_cache |-> use_cache, at |-> now, before |-> cache,
                      returncode |-> rc, remote |-> d]
        /\ lfResult' = list_folders(use_cache, cache, now, rc, d)
        /\ cache' = list_folders(use_cache, cache, now, rc, d).cache
        /\ UNCHANGED <<now, runVars, normVars, slugVars, fnVars, mcpVars>>

NextCache == Tick \/ ListFoldersCall
SpecCache == InitCache /\ [][NextCache]_vars

----------------------------------------------------------------------------
(* Claims about slugify and smart_filename *)

HasLeadOrTrailUnderscore(s) == s # <<>> /\ (s[1] = "_" \/ s[Len(s)] = "_")
HasDoubleUnderscore(s) == \E i \in 1..(Len(s) - 1) : s[i] = "_" /\ s[i + 1] = "_"
EndsWith(s, suffix) ==
    Len(suffix) <= Len(s) /\ SubSeq(s, Len(s) - Len(suffix) + 1, Len(s)) = suffix

\* C7: slugify maps the documented example to
\* "logitech_international_s_a_invoice_12345"; its output is lowercased, holds
\* only word characters (punctuation stripped, whitespace runs replaced by one
\* underscore), is at most maxlen long and has no boundary underscore.
C7_SlugifyDocumented ==
    slugOut.done =>
        LET out == slugOut.v IN
        /\ (slugIn.text = Example /\ slugIn.maxlen = DefaultMaxLen => out = ExampleSlug)
        /\ \A i \in DOMAIN out : ~IsUpper(out[i]) /\ IsWord(out[i])
        /\ Len(out) <= slugIn.maxlen
        /\ ~HasLeadOrTrailUnderscore(out)

\* what the code returns for the documented example: the dots and the two
\* hyphens of the transliterated dash stay
ExampleAsCoded == <<"l", "o", "g", "i", "t", "e", "c", "h", "_", "i", "n", "t", "e", "r",
                    "n", "a", "t", "i", "o", "n", "a", "l", "_", "s", ".", "a", ".", "_",
                    "-", "-", "_", "i", "n", "v", "o", "i", "c", "e", "_", "1", "2", "3",
                    "4", "5">>
SlugifyExampleAsCoded ==
    slugOut.done /\ slugIn.text = Example /\ slugIn.maxlen = DefaultMaxLen
        => slugOut.v = ExampleAsCoded

\* the part of C7 the code keeps: lowercase, no whitespace, no character
\* outside [A-Za-z0-9_.-], at most maxlen long, no boundary underscore
SlugifyShape ==
    slugOut.done =>
        LET out == slugOut.v IN
        /\ \A i \in DOMAIN out : ~IsUpper(out[i]) /\ (IsWord(out[i]) \/ out[i] \in {".", "-"})
        /\ Len(out) <= slugIn.maxlen
        /\ ~HasLeadOrTrailUnderscore(out)

\* C8: the filename smart_filename builds holds no run of two or more
\* underscores, neither begins nor ends with an underscore, and ends with the
\* original extension lowercased.
C8_SmartFilenameSeparators ==
    fnOut.done =>
        LET fn == fnOut.v IN
        /\ ~HasDoubleUnderscore(fn)
        /\ ~HasLeadOrTrailUnderscore(fn)
        /\ EndsWith(fn, Lower(splitext(fnIn.orig_name)[2]))

----------------------------------------------------------------------------
(* Claims about route *)

CallsOf(fn) == {i \in DOMAIN calls : calls[i].fn = fn}
\* the reasoning call returned a JSON object and lines 112-127 have run
Normalized == result.kind = "dict" /\ pc # "normalize"

\* C1: a run with auto=false ends with chosen_folder = null in the normalized
\* response and in what --json prints, whatever the reasoning response carried.
C1_AutoFalseChosenFolderNull ==
    (~auto /\ result.kind = "dict" /\ Normalized) =>
        /\ resp.chosen_folder = JNull
        /\ (emitted.done => emitted.v.chosen_folder = JNull)

\* the first non-empty value of a list of values, null when there is none
FirstNonEmpty(vs) ==
    IF \E i \in DOMAIN vs : Truthy(vs[i])
    THEN vs[CHOOSE i \in DOMAIN vs : Truthy(vs[i]) /\ \A j \in 1..(i - 1) : ~Truthy(vs[j])]
    ELSE JNull

NeedsDestination == auto \/ (chosen.t = "str" /\ chosen.s # <<>>)
TopCandidatePath == IF resp.candidates = <<>> THEN JNull ELSE resp.candidates[1].path
ResolvedDestination == FirstNonEmpty(<<chosen, result.chosen_folder, TopCandidatePath>>)

\* C2: when route needs a destination, the folder used for the move is the
\* first non-empty of --chosen, the response's chosen_folder and the path of
\* the first sorted candidate; when there is none the run ends with code 1 and
\* neither ensure_path nor move_local_to_remote is invoked.
C2_DestinationResolution ==
    /\ \A i \in CallsOf("ensure_path") \cup CallsOf("move_local_to_remote") :
           NeedsDestination /\ calls[i].arg = ResolvedDestination
    /\ (pc \in {"ensure_path", "move"} => Truthy(dest_folder) /\ dest_folder = ResolvedDestination)
    /\ (pc = "exit" /\ NeedsDestination /\ Normalized /\ ~Truthy(ResolvedDestination) =>
           /\ exitCode = 1
           /\ CallsOf("ensure_path") = {} /\ CallsOf("move_local_to_remote") = {})
    /\ (pc = "exit" /\ failure = "NoDestination" => ~Truthy(ResolvedDestination))

\* the move used the path of the top candidate: no --chosen, no chosen_folder
C2_Witness_CandidateUsed ==
    /\ ~Truthy(chosen) /\ ~Truthy(result.chosen_folder)
    /\ \E i \in CallsOf("move_local_to_remote") : calls[i].arg = JStr(<<"B">>)
    /\ Len(resp.candidates) = 2 /\ result.candidates[1].path = JStr(<<"A">>)

\* C5: the folder list sent to the reasoning service is the first min(n, 500)
\* entries, in order, of the n-entry list list_folders returned.
C5_PayloadIsFirst500 ==
    pc = "call_llm" =>
        LET sent == user_payload.folders
            n == Len(folders)
        IN /\ Len(sent) = (IF n < 500 THEN n ELSE 500)
           /\ \A i \in 1..Len(sent) : sent[i] = folders[i]

C5_Witness_Dropped501st ==
    /\ pc = "call_llm"
    /\ Len(folders) = 501 /\ Len(user_payload.folders) = 500
    /\ user_payload.folders[500] = 500

AnyCallFailed == \E i \in DOMAIN calls : ~calls[i].ok
ReplyNotObject == result.kind = "notdict"
NoDestinationAvailable ==
    NeedsDestination /\ Normalized /\ ~AnyCallFailed /\ ~Truthy(ResolvedDestination)

\* C6 as stated: exit code 1 when the file is missing or no destination is
\* available, exit code 0 in every other case, failed calls included.
C6_ExitCodeAsStated ==
    pc = "exit" => exitCode = (IF ~fileExists \/ NoDestinationAvailable THEN 1 ELSE 0)

\* C6 amended: exit code 1 when the file is missing, when no destination is
\* available, or when a step raised (text extraction, the folder listing, the
\* reasoning call, a reply that is no JSON object, an rclone command exiting
\* non-zero); exit code 0 only when the run completed.
C6_ExitCodeAmended ==
    pc = "exit" =>
        exitCode = (IF \/ ~fileExists
                       \/ NoDestinationAvailable
                       \/ AnyCallFailed
                       \/ ReplyNotObject
                    THEN 1 ELSE 0)

C6_Witness_FailedMoveExitsOne ==
    /\ pc = "exit" /\ exitCode = 1
    /\ \E i \in CallsOf("move_local_to_remote") : ~calls[i].ok

\* C10: move_local_to_remote is invoked at most once, as the last call, only
\* after the single reasoning call returned a parsed response and a non-empty
\* destination was resolved, and only with --auto or --chosen; ensure_path is
\* invoked only with --allow-create and then strictly before the move; a
\* suggest-only run and a run whose reasoning call failed invoke neither; the
\* reasoning call is made at most once.
C10_MoverOnlyAtTheEnd ==
    LET moves == CallsOf("move_local_to_remote")
        ensures == CallsOf("ensure_path")
        llms == CallsOf("call_llm")
    IN /\ Cardinality(moves) <= 1 /\ Cardinality(llms) <= 1 /\ Cardinality(ensures) <= 1
       /\ \A m \in moves :
            /\ m = Len(calls)
            /\ auto \/ Truthy(chosen)
            /\ Truthy(calls[m].arg)
            /\ result.kind = "dict"
            /\ \E l \in llms : l < m /\ calls[l].ok
            /\ allow_create => \E e \in ensures : e < m /\ calls[e].ok
       /\ \A e \in ensures :
            /\ allow_create
            /\ auto \/ Truthy(chosen)
            /\ \E l \in llms : l < e /\ calls[l].ok
            /\ \A m \in moves : e < m
       /\ (~auto /\ ~Truthy(chosen)) \/ (\E l \in llms : ~calls[l].ok)
             => moves = {} /\ ensures = {}

C10_Witness_EnsureThenMove ==
    /\ pc = "exit" /\ exitCode = 0
    /\ \E l \in CallsOf("call_llm"), e \in CallsOf("ensure_path"),
          m \in CallsOf("move_local_to_remote") : l < e /\ e < m

----------------------------------------------------------------------------
(* Claims about the normalization *)

\* int() of the enumerated raw scores, as Python defines it
ExpectedScore(v) ==
    CASE v = JInt(2) -> 2
      [] v = JStr(<<"3">>) -> 3
      [] v = JStr(<<" ", "-", "2", " ">>) -> -2
      [] v = JFloat(29) -> 2
      [] v = JFloat(-15) -> -1
      [] v = JBool(TRUE) -> 1
      [] OTHER -> 0         \* missing, null, "x", a list

Expected(c) == [path |-> c.path, score |-> JInt(ExpectedScore(c.score))]
Occurrences(s, x) == Cardinality({i \in DOMAIN s : s[i] = x})

\* C3: normalization never raises because of a score and leaves every
\* candidate with an integer score: int(score) when that is defined, 0 for a
\* score that is missing, null or not convertible.
C3_ScoresCoerced ==
    normOut.done =>
        /\ ~normOut.raised
        /\ Len(normOut.v) = Len(normIn)
        /\ \A i \in DOMAIN normOut.v : normOut.v[i].score.t = "int"
        /\ \A i \in DOMAIN normIn :
              Occurrences(normOut.v, Expected(normIn[i]))
                  = Occurrences(MapSeq(Expected, normIn), Expected(normIn[i]))

C3_Witness_BadScoresBecomeZero ==
    /\ normOut.done /\ Len(normIn) = 3
    /\ normIn[1].score = JNull /\ normIn[2].score = JStr(<<"x">>) /\ normIn[3].score = JAbsent
    /\ \A i \in DOMAIN normOut.v : normOut.v[i].score = JInt(0)

ScoreIs(k, c) == c.score = JInt(k)
ScoreValues == {ExpectedScore(v) : v \in NormScores}
WithScore(s, k) == LET Is(c) == ScoreIs(k, c) IN SelectSeq(s, Is)

\* C4: the normalized list is a permutation of the emitted candidates, in
\* non-increasing order of coerced score, candidates of equal score keeping
\* their emission order.
C4_SortedStable ==
    normOut.done =>
        LET out == normOut.v
            emitted_ == MapSeq(Expected, normIn)
        IN /\ Len(out) = Len(normIn)
           /\ \A i \in 1..(Len(out) - 1) : out[i].score.n >= out[i + 1].score.n
           /\ \A k \in ScoreValues : WithScore(out, k) = WithScore(emitted_, k)

C4_Witness_TieKeepsOrder ==
    /\ normOut.done /\ Len(normIn) = 3
    /\ normIn[1] = [path |-> JStr(<<"B">>), score |-> JStr(<<"x">>)]
    /\ normIn[2] = [path |-> JStr(<<"A">>), score |-> JNull]
    /\ normIn[3] = [path |-> JStr(<<"A">>), score |-> JStr(<<"3">>)]
    /\ normOut.v[1].path = JStr(<<"A">>) /\ normOut.v[2].path = JStr(<<"B">>)
    /\ normOut.v[3].path = JStr(<<"A">>)

----------------------------------------------------------------------------
(* Claims about the MCP tools *)

\* C9: every tool reports a failed rclone command as a value: with a
\* non-zero return code, with or without text on stderr, it returns
\* ResultWrapper(success=False, result=None) and does not raise; it returns
\* success=True only when the return code is 0.
C9_FailureIsAValue ==
    mcpCall.tool # "none" =>
        /\ (mcpCall.returncode # 0 => mcpResult = ResultWrapper(FALSE, None))
        /\ (mcpResult.kind = "return" /\ mcpResult.success => mcpCall.returncode = 0)

\* C9 for the three tools whose error report is written correctly
FailureIsAValueButListremotes ==
    mcpCall.tool \in {"lsf", "about", "copy"} =>
        /\ (mcpCall.returncode # 0 => mcpResult = ResultWrapper(FALSE, None))
        /\ (mcpResult.kind = "return" /\ mcpResult.success => mcpCall.returncode = 0)

----------------------------------------------------------------------------
(* Claims about list_folders *)

\* C11: a call with use_cache=true is served from the cache file, without
\* running the listing command, exactly when the file exists and its age
\* (now minus modification time) is strictly less than 600 seconds; in every
\* other case the remote is listed and the cache file is overwritten with
\* that listing, and when the listing command exits non-zero the call fails
\* and the cache file is left as it was.
C11_CacheServedWithinTTL ==
    lfCall.made =>
        LET before == lfCall.before
            served == lfCall.use_cache /\ before.exists /\ lfCall.at - before.mtime < 600
        IN /\ lfResult.ran_remote <=> ~served
           /\ served =>
                /\ ~lfResult.raised
                /\ lfResult.paths = PathsOf(Listing(before.data))
                /\ cache = before
           /\ (~served /\ lfCall.returncode = 0) =>
                /\ ~lfResult.raised
                /\ lfResult.paths = PathsOf(Listing(lfCall.remote))
                /\ cache = [exists |-> TRUE, data |-> lfCall.remote, mtime |-> lfCall.at]
           /\ (~served /\ lfCall.returncode # 0) =>
                /\ lfResult.raised
                /\ cache = before

\* a call with use_cache=true found a file exactly 600 seconds old holding
\* another listing than the remote, listed the remote and overwrote the file
C11_Witness_RefreshedAtTTL ==
    /\ lfCall.made /\ lfCall.use_cache /\ lfCall.before.exists
    /\ lfCall.at - lfCall.before.mtime = 600
    /\ lfCall.before.data # lfCall.remote
    /\ lfResult.ran_remote /\ ~lfResult.raised
    /\ cache.data = lfCall.remote /\ cache.mtime = lfCall.at

\* a call with use_cache=true found a file 599 seconds old and was served
\* from it
CacheServedAt599 ==
    /\ lfCall.made /\ lfCall.use_cache /\ lfCall.before.exists
    /\ lfCall.at - lfCall.before.mtime = 599
    /\ ~lfResult.ran_remote /\ cache = lfCall.before

====
